---- MODULE Spec2Model ----
(***************************************************************************)
(* A model of the gdax_logger order book (gdax_logger/OrderBook.py) and of *)
(* the handler that feeds and samples it (gdax_logger/LoggerHandler.py).   *)
(*                                                                         *)
(* Prices are fixed-point integers counted in pips, PipsPerCent pips to    *)
(* the cent, so that a price between two cents can be written down.        *)
(* Volumes are small naturals: doubles that are whole numbers, whose sums  *)
(* are exact.                                                              *)
(***************************************************************************)
EXTENDS Integers, Sequences, FiniteSets, TLC

\* ------------------------------------------------------------------ bounds

\* The price cap of the modelled book, in cents (OrderBook(price_cap, ...)).
CapCents == 30

\* Sizes carried by the feed are 0 .. MaxVolume.
MaxVolume == 2

\* Node 0 of the tree grows with every snapshot (see build_order_book); a
\* snapshot that would push it past MaxNodeZero is not taken.
MaxNodeZero == 2

\* The price cap, in cents, of the small books: the books the two threads
\* share, and the book of the second product.
SmallCapCents == 4

\* The clock advances at most MaxTicks times.
MaxTicks == 2

\* The main loop opens at most MaxConnections connections.
MaxConnections == 2

\* ------------------------------------------------------- numbers and floats

PipsPerCent == 100

Cents(c) == c * PipsPerCent

\* A token for a string float() cannot parse: float("abc") raises ValueError.
NonNumeric == -999999

\* A token for a value that is neither a number nor a string (None, a JSON
\* null, a list): float(None) raises TypeError.
NoneValue == -999998

\* A token for the double NaN (float("nan"), the JSON literal NaN): every
\* comparison with it is false and int() of it raises ValueError.
NaN == -999997

\* x <= y and x > y on doubles.
FloatLe(x, y) == x # NaN /\ y # NaN /\ x <= y
FloatGt(x, y) == x # NaN /\ y # NaN /\ x > y
FloatLt(x, y) == x # NaN /\ y # NaN /\ x < y

\* The cent prices c (below 1.13) for which the double nearest to c/100,
\* multiplied by 100, is below c: float("0.29") * 100 = 28.999999999999996.
FloatDriftCents == {29, 57, 58}

\* int(float(price) * 100): truncation of the double product.
IntPriceTimes100(price) ==
    LET c == price \div PipsPerCent
    IN  IF price % PipsPerCent = 0 /\ c \in FloatDriftCents THEN c - 1 ELSE c

\* i ^ 1
Xor1(i) == IF i % 2 = 0 THEN i + 1 ELSE i - 1

\* A Python list index: a negative index counts from the end of the list.
PyIndex(i, len) == IF i < 0 THEN i + len ELSE i

\* ------------------------------------------------------------- OrderBook

\* OrderBook.__init__
OrderBook(price_cap) ==
    LET price_points == IntPriceTimes100(price_cap)
    IN  [ price_cap       |-> price_cap,
          price_points    |-> price_points,
          market_price    |-> 0,
          volume_seg_tree |-> [i \in 0 .. (2 * price_points - 1) |-> 0] ]

\* OrderBook.__valid_number raises: float(number) raises a TypeError, which
\* `except ValueError` does not catch.
valid_number_raises(number) == number = NoneValue

\* OrderBook.__valid_number (where it returns)
valid_number(number) == number \notin {NonNumeric, NoneValue}

\* OrderBook.__price_under_cap
price_under_cap(book, price) == ~FloatGt(price, book.price_cap)

\* OrderBook.__valid_price (where it returns)
valid_price(book, price) ==
    IF ~valid_number(price) THEN FALSE
    ELSE IF FloatLe(price, 0) THEN FALSE
    ELSE price_under_cap(book, price)

\* OrderBook.__valid_volume (where it returns)
valid_volume(volume) ==
    IF ~valid_number(volume) THEN FALSE
    ELSE IF FloatLt(volume, 0) THEN FALSE
    ELSE TRUE

\* OrderBook.__valid_order (where it returns)
valid_order(book, price, volume) ==
    valid_price(book, price) /\ valid_volume(volume)

\* OrderBook.__valid_order raises: `and` tests the volume only when the
\* price is valid.
valid_order_raises(book, price, volume) ==
    IF valid_number_raises(price) THEN TRUE
    ELSE IF ~valid_price(book, price) THEN FALSE
    ELSE valid_number_raises(volume)

\* The exception a call of update_volume ends with, or "none": the TypeError
\* of the validation, or the ValueError of int(float(price) * 100) on NaN.
update_volume_raises(book, price, volume) ==
    IF valid_order_raises(book, price, volume) THEN "TypeError"
    ELSE IF valid_order(book, price, volume) /\ price = NaN THEN "ValueError"
    ELSE "none"

\* A parent loop that forgets the sibling (used to test C1).
PropagateStepNoSibling(tree, price_index) ==
    [tree EXCEPT ![price_index \div 2] = tree[price_index]]

\* One pass of the parent loop of update_volume.
PropagateStep(tree, price_index) ==
    [tree EXCEPT ![price_index \div 2] = tree[price_index] + tree[Xor1(price_index)]]

\* The parent loop of update_volume: while price_index > 1.
RECURSIVE Propagate(_, _)
Propagate(tree, price_index) ==
    IF price_index > 1
    THEN Propagate(PropagateStep(tree, price_index), price_index \div 2)
    ELSE tree

\* The tree index update_volume writes for a price.
UpdateIndex(book, price) == book.price_points + IntPriceTimes100(price) - 1

\* An update_volume that adds the volume to the level, as a delta (used to
\* test C10).
update_volume_delta(book, price, volume) ==
    IF update_volume_raises(book, price, volume) = "none"
            /\ valid_order(book, price, volume)
    THEN LET price_index == UpdateIndex(book, price)
         IN  [book EXCEPT !.volume_seg_tree =
                 Propagate([@ EXCEPT ![price_index] = @ + volume], price_index)]
    ELSE book

\* OrderBook.update_volume
update_volume(book, price, volume) ==
    IF update_volume_raises(book, price, volume) = "none"
            /\ valid_order(book, price, volume)
    THEN LET price_index == UpdateIndex(book, price)
         IN  [book EXCEPT !.volume_seg_tree =
                 Propagate([@ EXCEPT ![price_index] = volume], price_index)]
    ELSE book

\* The exception a call of update_market_price ends with, or "none".
update_market_price_raises(book, price) ==
    IF valid_number_raises(price) THEN "TypeError" ELSE "none"

\* OrderBook.update_market_price
update_market_price(book, price) ==
    IF update_market_price_raises(book, price) = "none" /\ valid_price(book, price)
    THEN [book EXCEPT !.market_price = price]
    ELSE book

\* One pass of an order loop of __gen_vol_array.
FillOrder(book, volumes, order) ==
    IF valid_order(book, order[1], order[2])
    THEN LET price_index == IntPriceTimes100(order[1]) - 1
         IN  [volumes EXCEPT ![PyIndex(price_index, book.price_points)] = order[2]]
    ELSE volumes

RECURSIVE FillOrders(_, _, _)
FillOrders(book, volumes, orders) ==
    IF orders = <<>> THEN volumes
    ELSE FillOrders(book, FillOrder(book, volumes, Head(orders)), Tail(orders))

\* OrderBook.__gen_vol_array
gen_vol_array(book, bid_orders, ask_orders) ==
    LET volumes == [i \in 0 .. (book.price_points - 1) |-> 0]
    IN  FillOrders(book, FillOrders(book, volumes, bid_orders), ask_orders)

\* One pass of the parent loop of __build_order_book.
BuildParent(tree, i) == [tree EXCEPT ![i] = tree[2 * i] + tree[2 * i + 1]]

\* The passes of the parent loop of __build_order_book for i from hi down to
\* lo, in that order (split in two halves, the upper one first, so that the
\* depth of the recursion is the logarithm of the number of passes).
RECURSIVE BuildParentsFrom(_, _, _)
BuildParentsFrom(tree, hi, lo) ==
    IF hi < lo \/ hi \notin DOMAIN tree THEN tree
    ELSE IF hi = lo THEN BuildParent(tree, hi)
    ELSE LET mid == (hi + lo) \div 2
         IN  BuildParentsFrom(BuildParentsFrom(tree, hi, mid + 1), mid, lo)

\* The parent loop of __build_order_book: i from price_points - 1 down to 0.
BuildParents(tree, i) == BuildParentsFrom(tree, i, 0)

\* The leaf loop of __build_order_book.
BuildLeaves(book, volumes) ==
    [i \in DOMAIN book.volume_seg_tree |->
        IF i >= book.price_points THEN volumes[i - book.price_points]
        ELSE book.volume_seg_tree[i]]

\* OrderBook.__build_order_book
build_order_book(book, volumes) ==
    [book EXCEPT !.volume_seg_tree =
        BuildParents(BuildLeaves(book, volumes), book.price_points - 1)]

\* The exception __gen_vol_array ends with on the first order that raises
\* one, or "none": an order raises what update_volume raises on it.
RECURSIVE FillOrdersRaise(_, _)
FillOrdersRaise(book, orders) ==
    IF orders = <<>> THEN "none"
    ELSE LET first == update_volume_raises(book, Head(orders)[1], Head(orders)[2])
         IN  IF first # "none" THEN first ELSE FillOrdersRaise(book, Tail(orders))

\* The exception a call of init_book ends with, or "none".
init_book_raises(book, orders) == FillOrdersRaise(book, orders.bids \o orders.asks)

\* OrderBook.init_book: an exception of __gen_vol_array leaves the tree as
\* it was, __build_order_book not being reached.
init_book(book, orders) ==
    IF init_book_raises(book, orders) # "none" THEN book
    ELSE build_order_book(book, gen_vol_array(book, orders.bids, orders.asks))

\* The indices get_volume_in_range starts from.  The addition of
\* price_points rounds the double back to the whole number, so the drift of
\* IntPriceTimes100 does not show here.
LeftIndex(book, lower_price_bound) ==
    (lower_price_bound \div PipsPerCent) - 1 + book.price_points

\* A right index without the added cent: the upper bound left out (used to
\* test C2).
RightIndexExclusive(book, upper_price_bound) ==
    (upper_price_bound \div PipsPerCent) - 1 + book.price_points

RightIndex(book, upper_price_bound) ==
    ((upper_price_bound + Cents(1)) \div PipsPerCent) - 1 + book.price_points

\* One pass of the loop of get_volume_in_range, on <<left, right, sum>>.
RangeStep(tree, lrs) ==
    LET l  == lrs[1]
        r  == lrs[2]
        s1 == IF l % 2 = 1 THEN lrs[3] + tree[l] ELSE lrs[3]
        l1 == IF l % 2 = 1 THEN l + 1 ELSE l
        r1 == IF r % 2 = 1 THEN r - 1 ELSE r
        s2 == IF r % 2 = 1 THEN s1 + tree[r1] ELSE s1
    IN  <<l1 \div 2, r1 \div 2, s2>>

RECURSIVE RangeLoop(_, _)
RangeLoop(tree, lrs) ==
    IF lrs[1] < lrs[2] THEN RangeLoop(tree, RangeStep(tree, lrs)) ELSE lrs[3]

\* The exception a call of get_volume_in_range ends with, or "none": the
\* TypeError of the validation (`and` tests the upper bound only when the
\* lower one is valid), or the ValueError of int() on NaN.
get_volume_in_range_raises(book, lower_price_bound, upper_price_bound) ==
    IF valid_number_raises(lower_price_bound) THEN "TypeError"
    ELSE IF ~valid_price(book, lower_price_bound) THEN "none"
    ELSE IF valid_number_raises(upper_price_bound) THEN "TypeError"
    ELSE IF ~valid_price(book, upper_price_bound) THEN "none"
    ELSE IF lower_price_bound = NaN \/ upper_price_bound = NaN THEN "ValueError"
    ELSE "none"

\* OrderBook.get_volume_in_range (where it returns)
get_volume_in_range(book, lower_price_bound, upper_price_bound) ==
    IF get_volume_in_range_raises(book, lower_price_bound, upper_price_bound) # "none"
    THEN 0
    ELSE
    IF valid_price(book, lower_price_bound) /\ valid_price(book, upper_price_bound)
    THEN RangeLoop(book.volume_seg_tree,
                   <<LeftIndex(book, lower_price_bound),
                     RightIndex(book, upper_price_bound), 0>>)
    ELSE 0

\* OrderBook.get_total_volume
get_total_volume(book) ==
    get_volume_in_range(book, Cents(1), book.price_cap - Cents(1))

\* OrderBook.built
built(book) == get_total_volume(book) # 0

\* OrderBook.get_market_price
get_market_price(book) == book.market_price

\* The bounds of one band of query; percent is in hundredths of a percent.
BandHigh(price, percent) == price + ((price * percent) \div 10000)
BandLow(price, percent) == price - ((price * percent) \div 10000)

\* OrderBook.query (the row without its two clock columns and its name)
query(book, percent_ranges) ==
    LET price == get_market_price(book)
    IN  [ price     |-> price,
          buy_vols  |-> [k \in DOMAIN percent_ranges |->
                            get_volume_in_range(book, BandLow(price, percent_ranges[k]), price)],
          sell_vols |-> [k \in DOMAIN percent_ranges |->
                            get_volume_in_range(book, price, BandHigh(price, percent_ranges[k]))],
          total     |-> get_total_volume(book) ]

\* --------------------------------------------------------- LoggerHandler

\* LoggerHandler.product_ids: the tracked products.
product_ids == {"BTC-USD", "ETH-USD"}

\* LoggerHandler._order_books, as __init__ builds it: a book per product,
\* each with the cap of its product.
NewOrderBooks ==
    [p \in product_ids |->
        OrderBook(Cents(IF p = "BTC-USD" THEN CapCents ELSE SmallCapCents))]

\* "match" in data['type'] is a substring test: last_match passes it too.
IsL2Update(type) == type = "l2update"
IsMatch(type) == type \in {"match", "last_match"}
IsSnapshot(type) == type = "snapshot"

\* The change of an l2update frame that update_order_book applies.
AppliedChange(frame) == frame.changes[1]

\* The l2update branch of update_order_book; a change is <<side, price, size>>.
ApplyL2Update(books, frame) ==
    LET product == frame.product_id
        price   == AppliedChange(frame)[2]
        volume  == AppliedChange(frame)[3]
    IN  IF product \in product_ids
        THEN [books EXCEPT ![product] = update_volume(@, price, volume)]
        ELSE books

\* A match branch that sets the market price of every book.
ApplyMatchAllBooks(books, frame) ==
    IF frame.product_id \in product_ids
    THEN [p \in DOMAIN books |-> update_market_price(books[p], frame.price)]
    ELSE books

\* The match branch of update_order_book.
ApplyMatch(books, frame) ==
    LET product == frame.product_id
    IN  IF product \in product_ids
        THEN [books EXCEPT ![product] = update_market_price(@, frame.price)]
        ELSE books

\* The snapshot branch of update_order_book.
ApplySnapshot(books, frame) ==
    LET product == frame.product_id
    IN  IF product \in product_ids
        THEN [books EXCEPT ![product] = init_book(@, frame)]
        ELSE books

\* The exception a call of update_order_book ends with, or "none".
update_order_book_raises(books, frame) ==
    IF frame.product_id \notin product_ids THEN "none"
    ELSE LET book == books[frame.product_id]
         IN  IF IsL2Update(frame.type)
             THEN update_volume_raises(book, AppliedChange(frame)[2], AppliedChange(frame)[3])
             ELSE IF IsMatch(frame.type) THEN update_market_price_raises(book, frame.price)
             ELSE IF IsSnapshot(frame.type) THEN init_book_raises(book, frame)
             ELSE "none"

\* LoggerHandler.update_order_book
update_order_book(books, frame) ==
    LET b1 == IF IsL2Update(frame.type) THEN ApplyL2Update(books, frame) ELSE books
        b2 == IF IsMatch(frame.type) THEN ApplyMatch(b1, frame) ELSE b1
    IN  IF IsSnapshot(frame.type) THEN ApplySnapshot(b2, frame) ELSE b2

\* The rate limit of operator notifications, in seconds (time() - 300).
RateLimitSeconds == 300

\* The handler's own fields after __init__, at time() = 0, with the clock and
\* what it has sent out: the rows of the two stores (by their primary key
\* system_time), the times of the notifications posted, and the connections
\* the main loop opened.  close_returned records that a call of close() has
\* returned.
NewHandler ==
    [ closed         |-> FALSE,
      post_to_slack  |-> FALSE,
      last_error     |-> 0 - RateLimitSeconds,
      clock          |-> 0,
      rows           |-> [tickers |-> {}, order_books |-> {}],
      posts          |-> <<>>,
      connections    |-> 0,
      close_returned |-> FALSE ]

\* LoggerHandler.is_running
is_running(h) == ~h.closed

\* What conn.execute / conn.commit of __write_to_db end with: success, the
\* store locked by another writer, another sqlite3.Error, or no connection
\* at all (__create_connection returned None).  A row whose system_time is
\* already in the table violates the primary key whatever else happens.
Outcomes(h, table, row) ==
    IF row \in h.rows[table] THEN {"unique"}
    ELSE {"ok", "locked", "other", "no_connection"}

\* A test that leaves out only the locked store.
EscalatedUnlessLocked(err) == err # "locked"

\* "database is locked" not in err and "UNIQUE" not in err
Escalated(err) == err \notin {"locked", "unique"}

\* self.__last_error <= time() - 300
RateLimitOpen(h) == h.last_error <= h.clock - RateLimitSeconds

\* LoggerHandler.__write_to_slack
write_to_slack(h) ==
    IF h.post_to_slack THEN [h EXCEPT !.posts = Append(@, h.clock)] ELSE h

\* ------------------------------------------------------------ feed frames

Frame(type, product, changes, price, bids, asks) ==
    [ type |-> type, product_id |-> product, changes |-> changes,
      price |-> price, bids |-> bids, asks |-> asks ]

L2Update(product, changes) == Frame("l2update", product, changes, 0, <<>>, <<>>)
Match(type, product, price) == Frame(type, product, <<>>, price, <<>>, <<>>)
Snapshot(product, bids, asks) == Frame("snapshot", product, <<>>, 0, bids, asks)

\* Prices the feed sends that fall on a level of the book: all on a cent.
\* 0.29 is the first price whose double drifts below the cent; the cap is
\* the top level.
LevelPrices == { Cents(28), Cents(29), Cents(CapCents) }

\* Prices the book rejects.
RejectedPrices == { 0, Cents(CapCents + 1) }

Volumes == 0 .. MaxVolume

\* Values that are no number: an unparsable string, a null, a NaN.
NonNumbers == { NonNumeric, NoneValue, NaN }

OneChangeFrames ==
    { L2Update("BTC-USD", << <<"buy", p, v>> >>) : p \in LevelPrices, v \in Volumes }
        \cup { L2Update("BTC-USD", << <<"buy", p, 1>> >>) : p \in RejectedPrices }

\* l2update frames with a price or a size that is no number, or a negative
\* size.  (A NaN size is left out: the trees of the model hold whole numbers.)
InvalidOrderFrames ==
    { L2Update("BTC-USD", << <<"buy", p, 1>> >>) : p \in NonNumbers }
        \cup { L2Update("BTC-USD", << <<"sell", Cents(28), v>> >>) :
                   v \in {NonNumeric, NoneValue, -1} }
        \cup { L2Update("BTC-USD", << <<"sell", 0, NoneValue>> >>) }

TwoChangeFrames ==
    { L2Update("BTC-USD", << <<"buy", Cents(28), MaxVolume>>,
                             <<"sell", Cents(CapCents), 1>> >>),
      L2Update("BTC-USD", << <<"sell", Cents(CapCents), 1>>,
                             <<"sell", Cents(CapCents), 0>> >>) }

MatchFrames ==
    { Match("match", "BTC-USD", Cents(28)),
      Match("match", "BTC-USD", Cents(CapCents + 1)),
      Match("last_match", "BTC-USD", Cents(29)) }

SnapshotFrames ==
    { Snapshot("BTC-USD", <<>>, <<>>),
      Snapshot("BTC-USD", << <<Cents(1), 1>> >>, << <<Cents(CapCents), 1>> >>),
      Snapshot("BTC-USD", << <<Cents(28), MaxVolume>> >>, <<>>),
      Snapshot("BTC-USD", <<>>, << <<Cents(29), 1>> >>),
      \* one price on both sides, and an entry the book rejects
      Snapshot("BTC-USD", << <<Cents(28), MaxVolume>>, <<0, 1>> >>,
                          << <<Cents(28), 1>> >>),
      \* an entry whose price is a null
      Snapshot("BTC-USD", << <<NoneValue, 1>> >>, << <<Cents(28), 1>> >>) }

\* A frame of a product the handler does not track, and one of a type it
\* ignores.
OtherFrames ==
    { L2Update("XRP-USD", << <<"buy", Cents(28), 1>> >>),
      Frame("heartbeat", "BTC-USD", <<>>, 0, <<>>, <<>>) }

Frames ==
    OneChangeFrames \cup InvalidOrderFrames \cup TwoChangeFrames \cup MatchFrames
        \cup SnapshotFrames \cup OtherFrames

\* Bounds <<lo, hi>> a caller passes to get_volume_in_range: the whole book,
\* one level, a range up to the cap, and an inverted range.
QueryRanges ==
    { <<Cents(1), Cents(CapCents)>>, <<Cents(29), Cents(29)>>,
      <<Cents(28), Cents(CapCents)>>, <<Cents(CapCents), Cents(1)>> }

\* Bounds of which one is invalid: not above 0, above the cap, no number.
InvalidRanges ==
    { <<0, Cents(CapCents)>>, <<Cents(1), Cents(CapCents + 1)>>,
      <<Cents(29), Cents(28)>> }
        \cup { <<x, Cents(CapCents)>> : x \in NonNumbers }
        \cup { <<Cents(1), x>> : x \in NonNumbers }
        \cup { <<0, NoneValue>> }

\* percent_ranges of a query, in hundredths of a percent: 5% and 25%.
PercentRanges == <<500, 2500>>

\* ------------------------------------------------------------------ state

VARIABLES
    order_books,  \* LoggerHandler._order_books: product -> OrderBook
    call,         \* the last call made on the handler or a book, with its result
    before,       \* order_books as it was when that call began
    lock,         \* OrderBook.__access_lock of each book: who holds it
    feed,         \* the feed thread: where it is in update_order_book
    sampler,      \* the sampler thread: where it is in __query_order_books
    handler       \* LoggerHandler's own fields, the clock and the two sinks

vars == <<order_books, call, before, lock, feed, sampler, handler>>

threads == <<lock, feed, sampler>>

NoCall == [op |-> "none", args |-> <<>>, result |-> 0, raised |-> "none"]

NoFrame == Frame("none", "none", <<>>, 0, <<>>, <<>>)

NoRow == [price |-> 0, buy_vols |-> <<>>, sell_vols |-> <<>>, total |-> 0]

\* The feed thread between two frames.
FeedIdle == [pc |-> "idle", frame |-> NoFrame, i |-> 0, volumes |-> <<>>]

\* The sampler thread at the head of the product loop, at product number i.
SamplerAt(i) ==
    [ pc |-> "pass", i |-> i, lrs |-> <<0, 0, 0>>, ret |-> "none", k |-> 0,
      row |-> NoRow, ok |-> {} ]

InitThreads ==
    /\ lock = [p \in product_ids |-> "free"]
    /\ feed = FeedIdle
    /\ sampler = SamplerAt(1)

Init ==
    /\ order_books = NewOrderBooks
    /\ call = NoCall
    /\ before = NewOrderBooks
    /\ InitThreads
    /\ handler = NewHandler

\* Node 0 of every tree stays within the bound.
NodeZeroBounded(books) ==
    \A p \in DOMAIN books : books[p].volume_seg_tree[0] <= MaxNodeZero

\* on_message -> LoggerHandler.update_order_book(frame)
UpdateOrderBook ==
    \E frame \in Frames :
      LET books == update_order_book(order_books, frame) IN
        /\ NodeZeroBounded(books)
        /\ order_books' = books
        /\ call' = [op |-> "update_order_book", args |-> <<frame>>, result |-> 0,
                    raised |-> update_order_book_raises(order_books, frame)]
        /\ before' = order_books
        /\ UNCHANGED <<threads, handler>>

\* OrderBook.get_volume_in_range(lo, hi) on a book
GetVolumeInRange ==
    \E p \in product_ids, range \in QueryRanges \cup InvalidRanges :
        /\ call' = [op |-> "get_volume_in_range", args |-> <<p, range[1], range[2]>>,
                    result |-> get_volume_in_range(order_books[p], range[1], range[2]),
                    raised |-> get_volume_in_range_raises(order_books[p], range[1],
                                                          range[2])]
        /\ before' = order_books
        /\ UNCHANGED <<order_books, threads, handler>>

\* OrderBook.get_total_volume() on a book
GetTotalVolume ==
    \E p \in product_ids :
        /\ call' = [op |-> "get_total_volume", args |-> <<p>>,
                    result |-> get_total_volume(order_books[p]), raised |-> "none"]
        /\ before' = order_books
        /\ UNCHANGED <<order_books, threads, handler>>

\* OrderBook.built() on a book
Built ==
    \E p \in product_ids :
        /\ call' = [op |-> "built", args |-> <<p>>,
                    result |-> built(order_books[p]), raised |-> "none"]
        /\ before' = order_books
        /\ UNCHANGED <<order_books, threads, handler>>

\* OrderBook.query(percent_ranges) on a book
Query ==
    \E p \in product_ids :
        /\ call' = [op |-> "query", args |-> <<p>>,
                    result |-> query(order_books[p], PercentRanges), raised |-> "none"]
        /\ before' = order_books
        /\ UNCHANGED <<order_books, threads, handler>>

Next ==
    \/ UpdateOrderBook
    \/ GetVolumeInRange
    \/ GetTotalVolume
    \/ Built
    \/ Query

Spec == Init /\ [][Next]_vars

\* ------------------------------------------------- the two threads
\* The feed thread runs on_message -> update_order_book for each frame; the
\* sampler thread runs __query_thread.  Each action below is one step of one
\* thread: a lock acquisition, one write of a tree node, or one pass of the
\* loop of get_volume_in_range.

SmallOrderBooks == [p \in product_ids |-> OrderBook(Cents(SmallCapCents))]

\* LoggerHandler.product_ids, in the order __query_order_books walks it.
ProductList == <<"BTC-USD">>

\* percent_ranges the sampler passes to query: one band of 50%.
SamplerPercentRanges == <<5000>>

ThreadFrames ==
    { L2Update("BTC-USD", << <<"buy", p, v>> >>) :
        p \in {Cents(1), Cents(SmallCapCents - 1)}, v \in {0, 1} }
    \cup { Snapshot("BTC-USD", << <<Cents(1), 1>> >>, <<>>),
           Snapshot("BTC-USD", <<>>, << <<Cents(SmallCapCents - 1), 1>> >>),
           Match("match", "BTC-USD", Cents(2)),
           Frame("heartbeat", "BTC-USD", <<>>, 0, <<>>, <<>>),
           \* a null price: update_volume raises TypeError inside its `with`
           L2Update("BTC-USD", << <<"buy", NoneValue, 1>> >>) }

\* `with self.__access_lock:` in init_book, update_volume and
\* update_market_price: the thread goes on once the lock is free.
WriterMayEnter(holder) == holder = "free"

\* A query that does not wait for the lock (used to test C6).
ReaderEntersAnyway(holder) == TRUE

\* `with self.__access_lock:` in query.
ReaderMayEnter(holder) == holder = "free"

\* The feed thread is inside the locked body of a book operation.
FeedWriting ==
    feed.pc \in {"uv_leaf", "uv_parents", "mp_set", "ib_leaves", "ib_parents", "release"}

\* The book operation update_order_book calls for a frame, if any.
Dispatch(frame) ==
    IF frame.product_id \notin product_ids THEN "idle"
    ELSE IF IsL2Update(frame.type) THEN "update_volume"
    ELSE IF IsMatch(frame.type) THEN "update_market_price"
    ELSE IF IsSnapshot(frame.type) THEN "init_book"
    ELSE "idle"

\* on_message: a frame arrives and update_order_book calls a book operation,
\* which is now waiting for the book's lock.
FeedReceive ==
    \E frame \in ThreadFrames :
        /\ feed.pc = "idle"
        /\ NodeZeroBounded(update_order_book(order_books, frame))
        /\ feed' = IF Dispatch(frame) = "idle" THEN FeedIdle
                   ELSE [FeedIdle EXCEPT !.pc = Dispatch(frame), !.frame = frame]
        /\ UNCHANGED <<handler, order_books, call, before, lock, sampler>>

\* The `with` of the book operation takes the lock.
FeedLock ==
    LET product == feed.frame.product_id IN
    /\ feed.pc \in {"update_volume", "update_market_price", "init_book"}
    /\ WriterMayEnter(lock[product])
    /\ lock' = [lock EXCEPT ![product] = "feed"]
    /\ before' = order_books
    /\ feed' = CASE feed.pc = "update_volume" -> [feed EXCEPT !.pc = "uv_leaf"]
                 [] feed.pc = "update_market_price" -> [feed EXCEPT !.pc = "mp_set"]
                 [] feed.pc = "init_book" ->
                      [feed EXCEPT !.pc = "ib_leaves", !.i = 0,
                                   !.volumes = gen_vol_array(order_books[product],
                                                   feed.frame.bids, feed.frame.asks)]
    /\ UNCHANGED <<handler, order_books, call, sampler>>

\* update_volume: the validity test and the write of the leaf.
FeedWriteLeaf ==
    LET product == feed.frame.product_id
        book    == order_books[product]
        price   == AppliedChange(feed.frame)[2]
        volume  == AppliedChange(feed.frame)[3]
    IN  /\ feed.pc = "uv_leaf"
        /\ IF valid_order(book, price, volume)
           THEN /\ order_books' = [order_books EXCEPT
                       ![product].volume_seg_tree[UpdateIndex(book, price)] = volume]
                /\ feed' = [feed EXCEPT !.pc = "uv_parents", !.i = UpdateIndex(book, price)]
           ELSE /\ feed' = [feed EXCEPT !.pc = "release"]
                /\ UNCHANGED order_books
        /\ UNCHANGED <<handler, call, before, lock, sampler>>

\* update_volume: one pass of the parent loop, or its end.
FeedPropagate ==
    LET product == feed.frame.product_id IN
    /\ feed.pc = "uv_parents"
    /\ IF feed.i > 1
       THEN /\ order_books' = [order_books EXCEPT ![product].volume_seg_tree =
                                   PropagateStep(@, feed.i)]
            /\ feed' = [feed EXCEPT !.i = feed.i \div 2]
       ELSE /\ feed' = [feed EXCEPT !.pc = "release", !.i = 0]
            /\ UNCHANGED order_books
    /\ UNCHANGED <<handler, call, before, lock, sampler>>

\* update_market_price: the body of the `with`.
FeedSetMarketPrice ==
    LET product == feed.frame.product_id IN
    /\ feed.pc = "mp_set"
    /\ order_books' = [order_books EXCEPT
           ![product] = update_market_price(@, feed.frame.price)]
    /\ feed' = [feed EXCEPT !.pc = "release"]
    /\ UNCHANGED <<handler, call, before, lock, sampler>>

\* __build_order_book: one pass of the leaf loop, or its end.
FeedBuildLeaf ==
    LET product == feed.frame.product_id
        book    == order_books[product]
    IN  /\ feed.pc = "ib_leaves"
        /\ IF feed.i < book.price_points
           THEN /\ order_books' = [order_books EXCEPT
                       ![product].volume_seg_tree[book.price_points + feed.i] =
                           feed.volumes[feed.i]]
                /\ feed' = [feed EXCEPT !.i = feed.i + 1]
           ELSE /\ feed' = [feed EXCEPT !.pc = "ib_parents", !.i = book.price_points - 1,
                                        !.volumes = <<>>]
                /\ UNCHANGED order_books
        /\ UNCHANGED <<handler, call, before, lock, sampler>>

\* __build_order_book: one pass of the parent loop, or its end.
FeedBuildParent ==
    LET product == feed.frame.product_id IN
    /\ feed.pc = "ib_parents"
    /\ IF feed.i >= 0
       THEN /\ order_books' = [order_books EXCEPT ![product].volume_seg_tree =
                                   BuildParent(@, feed.i)]
            /\ feed' = [feed EXCEPT !.i = feed.i - 1]
       ELSE /\ feed' = [feed EXCEPT !.pc = "release", !.i = 0]
            /\ UNCHANGED order_books
    /\ UNCHANGED <<handler, call, before, lock, sampler>>

\* The sampler is inside built(): in get_total_volume, called without the lock.
SamplerInBuilt == sampler.pc = "range" /\ sampler.ret = "built"

\* The sampler is inside query().
SamplerInQuery ==
    \/ sampler.pc = "range" /\ sampler.ret \in {"buy", "sell", "total"}
    \/ sampler.pc = "query_return"

\* The results a read in progress may rightly return, with one more state of
\* the books to draw them from: the total for built(), the row for query().
Seen(books) ==
    LET book == books[ProductList[sampler.i]] IN
    IF SamplerInBuilt THEN sampler.ok \cup {get_total_volume(book)}
    ELSE IF SamplerInQuery THEN sampler.ok \cup {query(book, SamplerPercentRanges)}
    ELSE sampler.ok

\* An end of the book operation that keeps the lock (used to test C28).
FeedReturnHoldingLock ==
    /\ feed.pc = "release"
    /\ feed' = FeedIdle
    /\ sampler' = [sampler EXCEPT !.ok = Seen(order_books)]
    /\ UNCHANGED <<handler, order_books, call, before, lock>>

\* The end of the `with` of the book operation, by its last statement, a
\* return or an exception: the lock is released.
FeedRelease ==
    /\ feed.pc = "release"
    /\ lock' = [lock EXCEPT ![feed.frame.product_id] = "free"]
    /\ feed' = FeedIdle
    /\ sampler' = [sampler EXCEPT !.ok = Seen(order_books)]
    /\ UNCHANGED <<handler, order_books, call, before>>

\* The start of get_volume_in_range: the validity test and the two indices.
StartRange(book, lower_price_bound, upper_price_bound) ==
    IF valid_price(book, lower_price_bound) /\ valid_price(book, upper_price_bound)
    THEN <<LeftIndex(book, lower_price_bound), RightIndex(book, upper_price_bound), 0>>
    ELSE <<0, 0, 0>>

\* The start of get_total_volume.
StartTotal(book) == StartRange(book, Cents(1), book.price_cap - Cents(1))

\* The books as of the last moment no book operation of the feed was under
\* way.
Committed == IF FeedWriting THEN before ELSE order_books

\* __query_order_books: the next product of the pass; built() is called on
\* its book, and get_total_volume starts.
SamplerCallBuilt ==
    /\ sampler.pc = "pass"
    /\ sampler.i <= Len(ProductList)
    /\ LET product == ProductList[sampler.i] IN
       sampler' = [sampler EXCEPT
           !.pc = "range", !.ret = "built",
           !.lrs = StartTotal(order_books[product]),
           !.ok = {get_total_volume(Committed[product])}]
    /\ UNCHANGED <<handler, order_books, call, before, lock, feed>>

\* __query_thread: the pass is over; after the sleep the next one starts.
SamplerSleep ==
    /\ sampler.pc = "pass"
    /\ sampler.i > Len(ProductList)
    /\ sampler' = SamplerAt(1)
    /\ UNCHANGED <<handler, order_books, call, before, lock, feed>>

\* get_volume_in_range: one pass of the loop.
SamplerRangeStep ==
    /\ sampler.pc = "range"
    /\ sampler.lrs[1] < sampler.lrs[2]
    /\ sampler' = [sampler EXCEPT !.lrs =
           RangeStep(order_books[ProductList[sampler.i]].volume_seg_tree, @)]
    /\ UNCHANGED <<handler, order_books, call, before, lock, feed>>

\* built() returns: an unbuilt book is skipped, a built one is queried.
SamplerBuiltReturn ==
    /\ SamplerInBuilt
    /\ ~(sampler.lrs[1] < sampler.lrs[2])
    /\ sampler' = IF sampler.lrs[3] # 0
                  THEN [SamplerAt(sampler.i) EXCEPT !.pc = "query"]
                  ELSE SamplerAt(sampler.i + 1)
    /\ UNCHANGED <<handler, order_books, call, before, lock, feed>>

\* query: the `with` takes the lock, the market price is read and the first
\* range query starts.
SamplerQueryLock ==
    LET product == ProductList[sampler.i]
        book    == order_books[product]
        price   == get_market_price(book)
    IN  /\ sampler.pc = "query"
        /\ ReaderMayEnter(lock[product])
        /\ lock' = [lock EXCEPT ![product] = "sampler"]
        /\ sampler' = [sampler EXCEPT
               !.pc = "range", !.ret = "buy", !.k = 1,
               !.row = [NoRow EXCEPT !.price = price],
               !.lrs = StartRange(book, BandLow(price, SamplerPercentRanges[1]), price),
               !.ok = {query(Committed[product], SamplerPercentRanges)}]
        /\ UNCHANGED <<handler, order_books, call, before, feed>>

\* query: a range query returns; its value goes into the row and the next
\* range query starts: the sell side of the band, the buy side of the next
\* band, the total.
SamplerQueryStep ==
    LET book  == order_books[ProductList[sampler.i]]
        price == sampler.row.price
        sum   == sampler.lrs[3]
        k     == sampler.k
    IN  /\ sampler.pc = "range"
        /\ sampler.ret \in {"buy", "sell", "total"}
        /\ ~(sampler.lrs[1] < sampler.lrs[2])
        /\ sampler' =
             CASE sampler.ret = "buy" ->
                    [sampler EXCEPT !.row.buy_vols = Append(@, sum), !.ret = "sell",
                        !.lrs = StartRange(book, price,
                                           BandHigh(price, SamplerPercentRanges[k]))]
               [] sampler.ret = "sell" /\ k < Len(SamplerPercentRanges) ->
                    [sampler EXCEPT !.row.sell_vols = Append(@, sum), !.ret = "buy",
                        !.k = k + 1,
                        !.lrs = StartRange(book,
                                           BandLow(price, SamplerPercentRanges[k + 1]),
                                           price)]
               [] sampler.ret = "sell" /\ ~(k < Len(SamplerPercentRanges)) ->
                    [sampler EXCEPT !.row.sell_vols = Append(@, sum), !.ret = "total",
                        !.k = 0, !.lrs = StartTotal(book)]
               [] sampler.ret = "total" ->
                    [sampler EXCEPT !.row.total = sum, !.ret = "none",
                        !.lrs = <<0, 0, 0>>, !.pc = "query_return"]
        /\ UNCHANGED <<handler, order_books, call, before, lock, feed>>

\* A return of query that keeps the lock.
SamplerQueryReturnHoldingLock ==
    /\ sampler.pc = "query_return"
    /\ sampler' = [sampler EXCEPT !.pc = "write", !.ok = {}]
    /\ UNCHANGED <<handler, order_books, call, before, lock, feed>>

\* query returns its row: the end of its `with` releases the lock.
SamplerQueryReturn ==
    /\ sampler.pc = "query_return"
    /\ lock' = [lock EXCEPT ![ProductList[sampler.i]] = "free"]
    /\ sampler' = [sampler EXCEPT !.pc = "write", !.ok = {}]
    /\ UNCHANGED <<handler, order_books, call, before, feed>>

\* __query_order_books: the row goes to __write_to_db, then the next product.
SamplerWriteToDb ==
    /\ sampler.pc = "write"
    /\ sampler' = SamplerAt(sampler.i + 1)
    /\ UNCHANGED <<handler, order_books, call, before, lock, feed>>

InitSmall ==
    /\ order_books = SmallOrderBooks
    /\ call = NoCall
    /\ before = SmallOrderBooks
    /\ InitThreads
    /\ handler = NewHandler

NextThreads ==
    \/ FeedReceive
    \/ FeedLock
    \/ FeedWriteLeaf
    \/ FeedPropagate
    \/ FeedSetMarketPrice
    \/ FeedBuildLeaf
    \/ FeedBuildParent
    \/ FeedRelease
    \/ SamplerCallBuilt
    \/ SamplerSleep
    \/ SamplerRangeStep
    \/ SamplerBuiltReturn
    \/ SamplerQueryLock
    \/ SamplerQueryStep
    \/ SamplerQueryReturn
    \/ SamplerWriteToDb

SpecThreads == InitSmall /\ [][NextThreads]_vars

\* The steps a running feed thread takes without waiting for anything: the
\* body of a book operation and the end of its `with`.
FeedRuns ==
    \/ FeedWriteLeaf
    \/ FeedPropagate
    \/ FeedSetMarketPrice
    \/ FeedBuildLeaf
    \/ FeedBuildParent
    \/ FeedRelease

\* The steps a running sampler thread takes without waiting for a lock.
SamplerSteps ==
    \/ SamplerCallBuilt
    \/ SamplerSleep
    \/ SamplerRangeStep
    \/ SamplerBuiltReturn
    \/ SamplerQueryStep
    \/ SamplerQueryReturn
    \/ SamplerWriteToDb

\* The two threads under fair scheduling.  A thread that can run does run
\* (weak fairness).  A thread blocked in threading.Lock.acquire is woken at
\* a release of the lock, and the thread that released it has to receive its
\* next frame, or sleep until its next pass, before it asks for the lock
\* again: a thread that finds the lock free again and again gets it (strong
\* fairness of the two acquisitions).  The arrival of a frame is not forced.
SpecThreadsFair ==
    /\ SpecThreads
    /\ WF_vars(FeedRuns)
    /\ SF_vars(FeedLock)
    /\ WF_vars(SamplerSteps)
    /\ SF_vars(SamplerQueryLock)

\* ----------------------------------------------------- the cap-200 book
\* A book whose price cap is 200, fed the frames of one subscription: the
\* snapshot first, then changes and matches on the snapshot's three levels.
\* Sizes are counted in halves here (1.5 is 3, 2.0 is 4, 0.5 is 1, 3.0 is 6),
\* so that they stay whole numbers.  None of the prices fed (99.50, 100.00,
\* 100.50) is one whose double drifts below the cent.

\* LoggerHandler._order_books with a first book of price cap 200.
S4OrderBooks ==
    [p \in product_ids |->
        OrderBook(Cents(IF p = "BTC-USD" THEN 20000 ELSE SmallCapCents))]

\* The snapshot: bids 100.00 -> 1.5 and 99.50 -> 2.0, asks 100.50 -> 0.5.
S4Snapshot ==
    Snapshot("BTC-USD", << <<Cents(10000), 3>>, <<Cents(9950), 4>> >>,
                        << <<Cents(10050), 1>> >>)

\* The frames that follow it: 100.00 set to 3.0, levels removed, matches.
S4Frames ==
    { L2Update("BTC-USD", << <<"buy", Cents(10000), v>> >>) : v \in {0, 6} }
        \cup { L2Update("BTC-USD", << <<"buy", Cents(9950), 0>> >>),
               L2Update("BTC-USD", << <<"sell", Cents(10050), 0>> >>),
               Match("match", "BTC-USD", Cents(10000)),
               Match("match", "BTC-USD", Cents(9950)) }

\* percent_ranges of the query, in hundredths of a percent: 0.5% and 1.0%.
S4PercentRanges == <<50, 100>>

\* on_message -> LoggerHandler.update_order_book(frame), for one frame
FeedFrame(frame) ==
    /\ order_books' = update_order_book(order_books, frame)
    /\ call' = [op |-> "update_order_book", args |-> <<frame>>, result |-> 0,
                raised |-> update_order_book_raises(order_books, frame)]
    /\ before' = order_books
    /\ UNCHANGED <<threads, handler>>

\* The snapshot is the first frame of the subscription.
S4InitBook ==
    /\ call = NoCall
    /\ FeedFrame(S4Snapshot)

S4UpdateOrderBook ==
    \E frame \in S4Frames : FeedFrame(frame)

\* OrderBook.query([0.5, 1.0]) on the cap-200 book
S4Query ==
    /\ call' = [op |-> "query", args |-> <<"BTC-USD">>,
                result |-> query(order_books["BTC-USD"], S4PercentRanges),
                raised |-> "none"]
    /\ before' = order_books
    /\ UNCHANGED <<order_books, threads, handler>>

InitS4 ==
    /\ order_books = S4OrderBooks
    /\ call = NoCall
    /\ before = S4OrderBooks
    /\ InitThreads
    /\ handler = NewHandler

NextS4 ==
    \/ S4InitBook
    \/ S4UpdateOrderBook
    \/ S4Query

SpecS4 == InitS4 /\ [][NextS4]_vars

\* ------------------------------------------------------- two products
\* The feed carries frames of both tracked products and of a product the
\* handler does not track; each tracked product has a small book.

FeedProducts == { "BTC-USD", "ETH-USD", "XRP-USD" }

ProductFrames ==
    UNION { { L2Update(p, << <<"buy", Cents(1), 0>> >>),
              L2Update(p, << <<"buy", Cents(1), 1>> >>),
              Match("match", p, Cents(1)),
              Snapshot(p, <<>>, << <<Cents(2), 1>> >>) } : p \in FeedProducts }

\* on_message -> LoggerHandler.update_order_book(frame)
ProductsUpdateOrderBook ==
    \E frame \in ProductFrames :
        /\ NodeZeroBounded(update_order_book(order_books, frame))
        /\ FeedFrame(frame)

InitProducts ==
    /\ order_books = SmallOrderBooks
    /\ call = NoCall
    /\ before = SmallOrderBooks
    /\ InitThreads
    /\ handler = NewHandler

NextProducts == ProductsUpdateOrderBook

SpecProducts == InitProducts /\ [][NextProducts]_vars

\* ------------------------------------------------------------ the sinks
\* The feed thread writes ticker rows (insert_ticker) and the sampler thread
\* writes book rows (__query_order_books), both through __write_to_db, whose
\* steps are one action each.  A row is its primary key system_time.  The
\* notification channel is switched on in some deployments (__post_to_slack
\* and __slack_url are written in __init__) and off as distributed.

\* time() moves in steps of TickSeconds seconds.
TickSeconds == 150

SinkWriters == { "feed", "sampler" }

\* The table a thread writes: __TICKER_PATH or __OB_PATH.
TableOf(t) == IF t = "feed" THEN "tickers" ELSE "order_books"

\* A thread outside __write_to_db that has written nothing yet.
WriterIdle ==
    [ pc |-> "idle", table |-> "none", row |-> 0, err |-> "none", result |-> "none" ]

Writer(t) == IF t = "feed" THEN feed ELSE sampler

SetWriter(t, w) ==
    IF t = "feed" THEN feed' = w /\ UNCHANGED sampler
    ELSE sampler' = w /\ UNCHANGED feed

\* time() advances.
Tick ==
    /\ handler.clock < MaxTicks * TickSeconds
    /\ handler' = [handler EXCEPT !.clock = @ + TickSeconds]
    /\ UNCHANGED <<order_books, call, before, lock, feed, sampler>>

\* insert_ticker / __query_order_books: a row stamped system_time = time()
\* is passed to __write_to_db.
BeginWrite(t) ==
    /\ Writer(t).pc = "idle"
    /\ SetWriter(t, [ pc |-> "execute", table |-> TableOf(t), row |-> handler.clock,
                      err |-> "none", result |-> "none" ])
    /\ UNCHANGED <<order_books, call, before, lock, handler>>

\* __write_to_db: the try block.
Execute(t) ==
    LET w == Writer(t) IN
    /\ w.pc = "execute"
    /\ \E outcome \in Outcomes(handler, w.table, w.row) :
         IF outcome = "ok"
         THEN /\ handler' = [handler EXCEPT !.rows[w.table] = @ \cup {w.row}]
              /\ SetWriter(t, [w EXCEPT !.pc = "idle", !.result = "True"])
         ELSE IF outcome = "no_connection"
         THEN /\ SetWriter(t, [w EXCEPT !.pc = "raised", !.err = outcome,
                                        !.result = "AttributeError"])
              /\ UNCHANGED handler
         ELSE /\ SetWriter(t, [w EXCEPT !.pc = "except", !.err = outcome])
              /\ UNCHANGED handler
    /\ UNCHANGED <<order_books, call, before, lock>>

\* __write_to_db: the except block up to the test of __last_error.
Except(t) ==
    LET w == Writer(t) IN
    /\ w.pc = "except"
    /\ IF Escalated(w.err) /\ RateLimitOpen(handler)
       THEN SetWriter(t, [w EXCEPT !.pc = "set"])
       ELSE SetWriter(t, [w EXCEPT !.pc = "idle", !.result = "None"])
    /\ UNCHANGED <<order_books, call, before, lock, handler>>

\* __write_to_db: self.__last_error = time()
SetLastError(t) ==
    LET w == Writer(t) IN
    /\ w.pc = "set"
    /\ handler' = [handler EXCEPT !.last_error = handler.clock]
    /\ SetWriter(t, [w EXCEPT !.pc = "slack"])
    /\ UNCHANGED <<order_books, call, before, lock>>

\* __write_to_db: self.__write_to_slack(msg); return None
WriteToSlack(t) ==
    LET w == Writer(t) IN
    /\ w.pc = "slack"
    /\ handler' = write_to_slack(handler)
    /\ SetWriter(t, [w EXCEPT !.pc = "idle", !.result = "None"])
    /\ UNCHANGED <<order_books, call, before, lock>>

\* An exception out of insert_ticker leaves on_message; the feed goes on with
\* its next frame.  (One out of __query_order_books ends the sampler thread.)
FeedCallbackRaised ==
    /\ feed.pc = "raised"
    /\ feed' = [feed EXCEPT !.pc = "idle"]
    /\ UNCHANGED <<order_books, call, before, lock, sampler, handler>>

InitSinks ==
    /\ order_books = SmallOrderBooks
    /\ call = NoCall
    /\ before = SmallOrderBooks
    /\ lock = [p \in product_ids |-> "free"]
    /\ feed = WriterIdle
    /\ sampler = WriterIdle
    /\ handler \in { [NewHandler EXCEPT !.post_to_slack = b] : b \in BOOLEAN }

NextSinks ==
    \/ Tick
    \/ \E t \in SinkWriters : BeginWrite(t)
    \/ \E t \in SinkWriters : Execute(t)
    \/ \E t \in SinkWriters : Except(t)
    \/ \E t \in SinkWriters : SetLastError(t)
    \/ \E t \in SinkWriters : WriteToSlack(t)
    \/ FeedCallbackRaised

SpecSinks == InitSinks /\ [][NextSinks]_vars

\* ------------------------------------------------------- the feed worker
\* logger.py: the main loop opens a connection and run_forever hands every
\* message of the feed to on_message.  A message is the text received: json
\* tells whether json.loads accepts it, ticker and time whether the text
\* contains 'ticker' and 'time', missing names a field the parsed object
\* lacks, columns counts the keys of a ticker that are ticker columns, and
\* frame holds what update_order_book reads.

Message(json, ticker, time, missing, columns, frame) ==
    [ json |-> json, ticker |-> ticker, time |-> time, missing |-> missing,
      columns |-> columns, frame |-> frame ]

BookMessage(frame) == Message("ok", FALSE, FALSE, "none", 0, frame)

\* The placeholders of the INSERT of insert_ticker.
TickerBindings == 10

\* The keys of a complete ticker that are ticker columns; system_time and
\* server_time are added by insert_ticker.
TickerColumns == TickerBindings - 2

TickerMessage(columns) ==
    Message("ok", TRUE, TRUE, "none", columns, Frame("ticker", "BTC-USD", <<>>, 0, <<>>, <<>>))

\* json.loads(data)
json_loads_raises(msg) == IF msg.json = "ok" THEN "none" ELSE "ValueError"

\* The subscripts update_order_book evaluates on the parsed object before it
\* calls the book: data['type'], then in the branch of the frame's type
\* data['product_id'] and data['changes'][0], data['price'], or in init_book
\* orders['bids'] and orders['asks'].
lookup_raises(msg) ==
    LET type == msg.frame.type
        read == IF IsL2Update(type) THEN {"type", "product_id", "changes"}
                ELSE IF IsMatch(type) THEN {"type", "product_id", "price"}
                ELSE IF IsSnapshot(type) THEN {"type", "product_id", "bids"}
                ELSE {"type"}
    IN  IF msg.missing \notin read THEN "none"
        ELSE IF msg.missing = "changes" /\ msg.frame.changes = <<>> THEN "IndexError"
        ELSE "KeyError"

\* The exception LoggerHandler.update_order_book(data) ends with on the text
\* of a message, or "none".
update_order_book_data_raises(books, msg) ==
    IF json_loads_raises(msg) # "none" THEN json_loads_raises(msg)
    ELSE IF lookup_raises(msg) # "none" THEN lookup_raises(msg)
    ELSE update_order_book_raises(books, msg.frame)

\* LoggerHandler.update_order_book(data) on the text of a message
update_order_book_data(books, msg) ==
    IF json_loads_raises(msg) # "none" \/ lookup_raises(msg) # "none" THEN books
    ELSE update_order_book(books, msg.frame)

\* How the INSERT of a row ends: a row with another number of values than the
\* statement has placeholders is refused (sqlite3.ProgrammingError).
InsertOutcomes(h, table, row, values) ==
    IF values # TickerBindings THEN {"other"} ELSE Outcomes(h, table, row)

\* LoggerHandler.__write_to_db as one step, the store answering `outcome`.
write_to_db(h, table, row, outcome) ==
    IF outcome = "ok" THEN [h EXCEPT !.rows[table] = @ \cup {row}]
    ELSE IF outcome = "no_connection" THEN h
    ELSE IF Escalated(outcome) /\ RateLimitOpen(h)
         THEN write_to_slack([h EXCEPT !.last_error = h.clock])
         ELSE h

\* The exception that leaves __write_to_db: conn is None without a connection.
write_to_db_raises(outcome) ==
    IF outcome = "no_connection" THEN "AttributeError" ELSE "none"

\* LoggerHandler.insert_ticker
insert_ticker_raises(msg, outcome) ==
    IF json_loads_raises(msg) # "none" THEN json_loads_raises(msg)
    ELSE write_to_db_raises(outcome)

insert_ticker(h, msg, outcome) ==
    IF json_loads_raises(msg) # "none" THEN h
    ELSE write_to_db(h, "tickers", h.clock, outcome)

\* on_message: which of its three branches a message takes.
Branch(msg) ==
    IF msg.ticker THEN (IF msg.time THEN "insert_ticker" ELSE "warning")
    ELSE "update_order_book"

\* The clauses of the main loop that catch an exception out of run_forever.
CatchesWebSocketExceptionOnly(exc) == exc = "WebSocketException"

\* except WebSocketException ... except Exception
Catches(exc) ==
    exc \in { "WebSocketException", "ValueError", "KeyError", "IndexError",
              "TypeError", "AttributeError" }

\* Where the feed worker is after a callback ended with `raised`: run_forever
\* either logs the error of a callback and goes on, or ends with it, and
\* then the main loop catches it or is left by it.
AfterCallback(raised) ==
    IF raised = "none" THEN {"running"}
    ELSE {"running"} \cup (IF Catches(raised) THEN {"loop"} ELSE {"aborted"})

\* The feed worker at the head of the main loop, having dropped no message.
FeedAtLoop == [pc |-> "loop", ret |-> "none", dropped |-> 0]

\* while handler.is_running(): WebSocketApp(...), run_forever
MainConnect ==
    /\ feed.pc = "loop"
    /\ is_running(handler)
    /\ handler.connections < MaxConnections
    /\ feed' = [feed EXCEPT !.pc = "running"]
    /\ handler' = [handler EXCEPT !.connections = @ + 1]
    /\ UNCHANGED <<order_books, call, before, lock, sampler>>

\* on_message(ws, data) for one message of the feed
OnMessage(msg) ==
    /\ feed.pc = "running"
    /\ \E outcome \in InsertOutcomes(handler, "tickers", handler.clock, msg.columns + 2) :
         LET branch == Branch(msg)
             raised == IF branch = "insert_ticker" THEN insert_ticker_raises(msg, outcome)
                       ELSE IF branch = "update_order_book"
                            THEN update_order_book_data_raises(order_books, msg)
                       ELSE "none"
             books  == IF branch = "update_order_book"
                       THEN update_order_book_data(order_books, msg) ELSE order_books
         IN  /\ order_books' = books
             /\ NodeZeroBounded(books)
             /\ handler' = IF branch = "insert_ticker"
                           THEN insert_ticker(handler, msg, outcome) ELSE handler
             /\ call' = [op |-> "on_message", args |-> <<msg>>, result |-> outcome,
                         raised |-> raised]
             /\ before' = order_books
             /\ \E pc \in AfterCallback(raised) :
                    feed' = [feed EXCEPT !.pc = pc,
                                         !.dropped = IF raised = "none" THEN @ ELSE 1]
    /\ UNCHANGED <<lock, sampler>>

\* The connection is lost: run_forever returns, or raises and the main loop
\* catches it.
ConnectionLost ==
    /\ feed.pc = "running"
    /\ feed' = [feed EXCEPT !.pc = "loop"]
    /\ UNCHANGED <<order_books, call, before, lock, sampler, handler>>

\* Texts json.loads refuses, with and without 'ticker' in them.
MalformedJson ==
    { Message("malformed", FALSE, FALSE, "none", 0, NoFrame),
      Message("malformed", TRUE, TRUE, "none", 0, NoFrame) }

\* Objects that lack a field update_order_book reads, and a ticker without
\* two of its columns.
MissingFields ==
    { Message("ok", FALSE, FALSE, "type", 0, L2Update("BTC-USD", << <<"buy", Cents(1), 1>> >>)),
      Message("ok", FALSE, FALSE, "product_id", 0, L2Update("BTC-USD", << <<"buy", Cents(1), 1>> >>)),
      Message("ok", FALSE, FALSE, "changes", 0, L2Update("BTC-USD", <<>>)),
      Message("ok", FALSE, FALSE, "price", 0, Match("match", "BTC-USD", Cents(1))),
      Message("ok", FALSE, FALSE, "bids", 0, Snapshot("BTC-USD", <<>>, << <<Cents(2), 1>> >>)),
      TickerMessage(TickerColumns - 2) }

\* Messages on_message handles to the end.
WellFormed ==
    { BookMessage(L2Update("BTC-USD", << <<"buy", Cents(1), v>> >>)) : v \in {0, 1} }
        \cup { BookMessage(Match("match", "BTC-USD", Cents(1))),
               BookMessage(Snapshot("BTC-USD", <<>>, <<>>)),
               TickerMessage(TickerColumns),
               \* a ticker text without 'time'
               Message("ok", TRUE, FALSE, "none", TickerColumns, NoFrame) }

Messages == MalformedJson \cup MissingFields \cup WellFormed

FeedOnMessage == \E msg \in Messages : OnMessage(msg)

InitFeed ==
    /\ order_books = SmallOrderBooks
    /\ call = NoCall
    /\ before = SmallOrderBooks
    /\ lock = [p \in product_ids |-> "free"]
    /\ feed = FeedAtLoop
    /\ sampler = SamplerAt(1)
    /\ handler = NewHandler

NextFeed ==
    \/ Tick
    \/ MainConnect
    \/ FeedOnMessage
    \/ ConnectionLost

SpecFeed == InitFeed /\ [][NextFeed]_vars

\* ------------------------------------------------------------- stopping
\* The main thread runs the main loop of logger.py inside
\* `with LoggerHandler() as handler`; the sampler thread, started by
\* __init__, runs __query_thread.  close() is called by on_error on a
\* KeyboardInterrupt and by __exit__ when the with block is left.

\* LoggerHandler.product_ids, in the order __query_order_books walks it.
SampledProducts == <<"BTC-USD", "ETH-USD">>

\* The sampler thread at `while not self.__closed`.
SamplerAtWhile == [pc |-> "while", i |-> 0]

\* The messages of the feed: a level of the first book set and removed.
CloseMessages ==
    { BookMessage(L2Update("BTC-USD", << <<"buy", Cents(1), v>> >>)) : v \in {0, 1} }

CloseOnMessage == \E msg \in CloseMessages : OnMessage(msg)

\* A join that does not wait.
JoinReturnsAtOnce(thread) == TRUE

\* self.__logger_thread.join() returns once the thread has ended.
JoinReturns(thread) == thread.pc = "exited"

\* on_error(ws, KeyboardInterrupt): handler.close() sets the flag and joins;
\* run_forever ends after it.
OnErrorInterrupt ==
    /\ feed.pc = "running"
    /\ feed' = [feed EXCEPT !.pc = "join", !.ret = "loop"]
    /\ handler' = [handler EXCEPT !.closed = TRUE]
    /\ UNCHANGED <<order_books, call, before, lock, sampler>>

\* The with block is left, by the end of the loop or by a KeyboardInterrupt
\* raised in the main loop itself: __exit__ calls close().
MainExit ==
    /\ feed.pc = "loop"
    /\ feed' = [feed EXCEPT !.pc = "join", !.ret = "done"]
    /\ handler' = [handler EXCEPT !.closed = TRUE]
    /\ UNCHANGED <<order_books, call, before, lock, sampler>>

\* close(): join() returns, and close() with it.
Join ==
    /\ feed.pc = "join"
    /\ JoinReturns(sampler)
    /\ feed' = [feed EXCEPT !.pc = feed.ret]
    /\ handler' = [handler EXCEPT !.close_returned = TRUE]
    /\ UNCHANGED <<order_books, call, before, lock, sampler>>

\* __query_thread: while not self.__closed
SamplerWhile ==
    /\ sampler.pc = "while"
    /\ sampler' = IF handler.closed THEN [sampler EXCEPT !.pc = "exited"]
                  ELSE [sampler EXCEPT !.pc = "pass", !.i = 1]
    /\ UNCHANGED <<order_books, call, before, lock, feed, handler>>

\* __query_order_books: one product of the loop: built(), query(), and the
\* row written.  Without a connection the AttributeError of __write_to_db
\* ends the thread.
SamplerProduct ==
    /\ sampler.pc = "pass"
    /\ sampler.i <= Len(SampledProducts)
    /\ LET book == order_books[SampledProducts[sampler.i]] IN
         IF ~built(book)
         THEN /\ sampler' = [sampler EXCEPT !.i = @ + 1]
              /\ UNCHANGED handler
         ELSE \E outcome \in Outcomes(handler, "order_books", handler.clock) :
                /\ handler' = write_to_db(handler, "order_books", handler.clock, outcome)
                /\ sampler' = IF write_to_db_raises(outcome) # "none"
                              THEN [sampler EXCEPT !.pc = "exited"]
                              ELSE [sampler EXCEPT !.i = @ + 1]
    /\ UNCHANGED <<order_books, call, before, lock, feed>>

\* __query_thread: the pass is over; sleep(0.9835), then the loop test.
SamplerPassDone ==
    /\ sampler.pc = "pass"
    /\ sampler.i > Len(SampledProducts)
    /\ sampler' = [sampler EXCEPT !.pc = "while"]
    /\ UNCHANGED <<order_books, call, before, lock, feed, handler>>

SamplerRuns == SamplerWhile \/ SamplerProduct \/ SamplerPassDone

InitClose ==
    /\ order_books = SmallOrderBooks
    /\ call = NoCall
    /\ before = SmallOrderBooks
    /\ lock = [p \in product_ids |-> "free"]
    /\ feed = FeedAtLoop
    /\ sampler = SamplerAtWhile
    /\ handler = NewHandler

NextClose ==
    \/ Tick
    \/ MainConnect
    \/ CloseOnMessage
    \/ ConnectionLost
    \/ OnErrorInterrupt
    \/ MainExit
    \/ Join
    \/ SamplerWhile
    \/ SamplerProduct
    \/ SamplerPassDone

\* The sampler thread is scheduled and its sink calls return; a join whose
\* thread has ended returns.
SpecClose ==
    InitClose /\ [][NextClose]_vars /\ WF_vars(SamplerRuns) /\ WF_vars(Join)

\* ----------------------------------------------------------- ticker rows
\* insert_ticker in detail: the parsed ticker is the sequence of its
\* <<key, value>> pairs in the order of the text (a dict keeps it), and the
\* row is a sequence of values bound to the placeholders by position.

\* LoggerHandler.ticker_columns, which is also the order of the columns of
\* the tickers table.
ticker_columns ==
    << "system_time", "server_time", "product_id", "price", "open_24h",
       "volume_24h", "best_bid", "best_ask", "side", "last_size" >>

Range(seq) == { seq[i] : i \in DOMAIN seq }

\* for key in data: if key in self.ticker_columns: fdata[key] = data[key],
\* then the values of fdata in the order its keys were inserted.
RECURSIVE FilterColumns(_)
FilterColumns(data) ==
    IF data = <<>> THEN <<>>
    ELSE IF data[1][1] \in Range(ticker_columns)
         THEN <<data[1][2]>> \o FilterColumns(Tail(data))
         ELSE FilterColumns(Tail(data))

\* The row insert_ticker passes to __write_to_db at time() = clock; both
\* clock columns are read off the local clock.
ticker_row(clock, data) == <<clock, clock>> \o FilterColumns(data)

\* The value the row holds in a column of the table, "absent" if the row ends
\* before it.
RECURSIVE IndexOf(_, _)
IndexOf(seq, x) == IF seq[1] = x THEN 1 ELSE 1 + IndexOf(Tail(seq), x)

Column(row, name) ==
    IF IndexOf(ticker_columns, name) \in DOMAIN row
    THEN row[IndexOf(ticker_columns, name)] ELSE "absent"

\* The value of a key in the parsed ticker.
RECURSIVE Field(_, _)
Field(data, key) ==
    IF data = <<>> THEN "absent"
    ELSE IF data[1][1] = key THEN data[1][2] ELSE Field(Tail(data), key)

\* A ticker of the feed in the order the feed documents, with the keys that
\* are no ticker columns among them; every value is the string of the text.
TickerInOrder ==
    << <<"type", "ticker">>, <<"sequence", "1">>, <<"product_id", "BTC-USD">>,
       <<"price", "123.45">>, <<"open_24h", "120.00">>, <<"volume_24h", "7.5">>,
       <<"low_24h", "119.00">>, <<"best_bid", "123.44">>, <<"best_ask", "123.46">>,
       <<"side", "buy">>, <<"time", "2020-01-01T00:00:00.000Z">>,
       <<"trade_id", "2">>, <<"last_size", "0.1">> >>

\* The same object with two of its members exchanged.
Swap(seq, i, j) ==
    [k \in DOMAIN seq |-> IF k = i THEN seq[j] ELSE IF k = j THEN seq[i] ELSE seq[k]]

\* Tickers carrying a time field: the documented order, another product and
\* price, price before product_id, time first, and keys in reverse.
TickerFrames ==
    { TickerInOrder,
      [TickerInOrder EXCEPT ![3] = <<"product_id", "ETH-USD">>, ![4] = <<"price", "9.99">>],
      Swap(TickerInOrder, 3, 4),
      Swap(TickerInOrder, 1, 11),
      [k \in DOMAIN TickerInOrder |-> TickerInOrder[Len(TickerInOrder) + 1 - k]] }

\* on_message -> insert_ticker on a ticker text that holds 'time'
TickerOnMessage ==
    \E data \in TickerFrames :
      LET row == ticker_row(handler.clock, data) IN
      \E outcome \in InsertOutcomes(handler, "tickers", handler.clock, Len(row)) :
        /\ handler' = write_to_db(handler, "tickers", handler.clock, outcome)
        /\ call' = [op |-> "insert_ticker", args |-> <<data>>, result |-> <<row>>,
                    raised |-> write_to_db_raises(outcome)]
        /\ UNCHANGED <<order_books, before, lock, feed, sampler>>

NextTicker ==
    \/ Tick
    \/ TickerOnMessage

SpecTicker == InitFeed /\ [][NextTicker]_vars

\* -------------------------------------------------------- market prices
\* The feed's matches carry every kind of price, among l2updates that give
\* the first book its levels.

MarketFrames ==
    { Match("match", "BTC-USD", p) :
          p \in {Cents(1), Cents(28), Cents(CapCents)} \cup RejectedPrices \cup NonNumbers }
        \cup { L2Update("BTC-USD", << <<"buy", Cents(28), v>> >>) : v \in Volumes }
        \cup { L2Update("BTC-USD", << <<"sell", Cents(CapCents), 1>> >>) }

\* on_message -> LoggerHandler.update_order_book(frame)
MarketUpdateOrderBook == \E frame \in MarketFrames : FeedFrame(frame)

NextMarket == MarketUpdateOrderBook

SpecMarket == Init /\ [][NextMarket]_vars

\* ------------------------------------------------- prices off the cent grid

\* A price of half a cent: above 0, below the lowest level of a book.
SubCentPrice == PipsPerCent \div 2

\* Prices of l2update and snapshot frames for the ETH-USD book: half a cent,
\* a cent and a half, the lowest level and the cap.
PipPrices ==
    { SubCentPrice, Cents(1) + SubCentPrice, Cents(1), Cents(SmallCapCents) }

PipFrames ==
    { L2Update("ETH-USD", << <<"buy", p, v>> >>) : p \in PipPrices, v \in Volumes }
        \cup { Snapshot("ETH-USD", << <<p, 1>> >>, <<>>) : p \in PipPrices }
        \cup { Snapshot("ETH-USD", <<>>, <<>>) }

\* on_message -> LoggerHandler.update_order_book(frame)
PipUpdateOrderBook ==
    \E frame \in PipFrames :
        /\ NodeZeroBounded(update_order_book(order_books, frame))
        /\ FeedFrame(frame)

NextPips == PipUpdateOrderBook

SpecPips == Init /\ [][NextPips]_vars

\* ------------------------------------------------------ the buffered logger
\* GDAXLoggerBase: log() puts records in a queue, the logger thread
\* (__flusher) writes them to the log file, close() stops the thread.  In
\* this specification `handler` holds the logger object, `sampler` the
\* logger thread and `feed` the thread that calls log() and close().

\* The records of a run are numbered 1 .. MaxRecords.
MaxRecords == 3

\* What a record holds: a JSON object with a "time" member, a JSON object
\* with the text "time" inside another member ({"type": "timeout"}), or a
\* JSON object without that text.
RecordKinds == {"keyed", "unkeyed", "absent"}

NoData == [kind |-> "none", n |-> 0]

\* GDAXLoggerBase.__init__, with the log file as the rows written to it and
\* the records log() has accepted, in order.
NewLogger ==
    [ buffer |-> <<>>, prev_data |-> NoData, stop |-> FALSE, logfile |-> <<>>,
      accepted |-> <<>>, logged |-> 0, close_returned |-> FALSE ]

\* `'time' in data`, data being the text of the frame.
contains_time(data) == data.kind \in {"keyed", "unkeyed"}

\* __get_filtered_data: the members of json.loads(data_str) named in _cols;
\* fdata has a 'time' member only if the object has one.
has_time_member(data) == data.kind = "keyed"

\* The ways __write_log_file ends on filtered data: the row is written, the
\* assertion of __resolve_file fails, or fdata['time'] raises KeyError.
WriteOutcomes(data) ==
    IF has_time_member(data) THEN {"ok", "AssertionError"} ELSE {"KeyError"}

LoggerAtCallbacks == [pc |-> "callbacks"]

FlusherAt(pc, data) == [pc |-> pc, data |-> data]

\* log(ws, data), called before close()
Log ==
    \E kind \in RecordKinds :
        LET data == [kind |-> kind, n |-> handler.logged + 1] IN
        /\ feed.pc = "callbacks"
        /\ handler.logged < MaxRecords
        /\ handler' = IF contains_time(data)
                      THEN [handler EXCEPT !.buffer = Append(@, data),
                                           !.accepted = Append(@, data),
                                           !.logged = @ + 1]
                      ELSE [handler EXCEPT !.logged = @ + 1]
        /\ UNCHANGED <<order_books, call, before, lock, feed, sampler>>

\* close(): the stop flag is set, then the logger thread is joined.
Close ==
    /\ feed.pc = "callbacks"
    /\ handler' = [handler EXCEPT !.stop = TRUE]
    /\ feed' = [feed EXCEPT !.pc = "join"]
    /\ UNCHANGED <<order_books, call, before, lock, sampler>>

\* close(): join returns once the logger thread has ended; the log file is
\* closed and close() returns.
CloseJoin ==
    /\ feed.pc = "join"
    /\ sampler.pc = "exited"
    /\ feed' = [feed EXCEPT !.pc = "closed"]
    /\ handler' = [handler EXCEPT !.close_returned = TRUE]
    /\ UNCHANGED <<order_books, call, before, lock, sampler>>

\* __flusher: `while not self._stop`, after the sleep.
Flusher ==
    /\ sampler.pc = "while"
    /\ sampler' = IF handler.stop THEN FlusherAt("exited", NoData)
                  ELSE FlusherAt("flush", NoData)
    /\ UNCHANGED <<order_books, call, before, lock, feed, handler>>

\* __flush_buffer: `while not self._buffer.empty()`; at its end the file is
\* flushed and __flusher sleeps.
FlushBuffer ==
    /\ sampler.pc = "flush"
    /\ sampler' = IF handler.buffer # <<>> THEN FlusherAt("get", NoData)
                  ELSE FlusherAt("while", NoData)
    /\ UNCHANGED <<order_books, call, before, lock, feed, handler>>

\* __get_data: the record rolled back, if there is one, else the head of the
\* queue.
GetData ==
    /\ sampler.pc = "get"
    /\ IF handler.prev_data = NoData
       THEN /\ handler.buffer # <<>>
            /\ sampler' = FlusherAt("write", Head(handler.buffer))
            /\ handler' = [handler EXCEPT !.buffer = Tail(@)]
       ELSE /\ sampler' = FlusherAt("write", handler.prev_data)
            /\ handler' = [handler EXCEPT !.prev_data = NoData]
    /\ UNCHANGED <<order_books, call, before, lock, feed>>

\* __get_filtered_data and __write_log_file inside the try of
\* __flush_buffer: the row is appended to the file; an AssertionError rolls
\* the record back; any other exception ends the logger thread.
WriteLogFile ==
    \E outcome \in WriteOutcomes(sampler.data) :
        /\ sampler.pc = "write"
        /\ handler' = CASE outcome = "ok" ->
                             [handler EXCEPT !.logfile = Append(@, sampler.data)]
                        [] outcome = "AssertionError" ->
                             [handler EXCEPT !.prev_data = sampler.data]
                        [] OTHER -> handler
        /\ sampler' = IF outcome \in {"ok", "AssertionError"}
                      THEN FlusherAt("flush", NoData)
                      ELSE FlusherAt("exited", NoData)
        /\ UNCHANGED <<order_books, call, before, lock, feed>>

InitLogger ==
    /\ order_books = NewOrderBooks
    /\ call = NoCall
    /\ before = NewOrderBooks
    /\ lock = [p \in product_ids |-> "free"]
    /\ feed = LoggerAtCallbacks
    /\ sampler = FlusherAt("while", NoData)
    /\ handler = NewLogger

NextLogger ==
    \/ Log
    \/ Close
    \/ CloseJoin
    \/ Flusher
    \/ FlushBuffer
    \/ GetData
    \/ WriteLogFile

SpecLogger == InitLogger /\ [][NextLogger]_vars

\* ----------------------------------------------------- reading a book

\* The leaf of the price of `cents` cents: leaves[to_index(price)].
Leaf(book, cents) == book.volume_seg_tree[book.price_points + cents - 1]

\* The cent prices of a book's levels.
LevelCents(book) == 1 .. book.price_points

RECURSIVE SumLeaves(_, _, _)
SumLeaves(book, lo, hi) ==
    IF lo > hi THEN 0 ELSE Leaf(book, lo) + SumLeaves(book, lo + 1, hi)

\* The last call was update_order_book on an l2update frame of a tracked
\* product, that is, one call of update_volume on that product's book.
UpdateVolumeCalled ==
    /\ call.op = "update_order_book"
    /\ IsL2Update(call.args[1].type)
    /\ call.args[1].product_id \in product_ids

\* The book, price and volume of that call of update_volume.
CalledProduct == call.args[1].product_id
CalledPrice == AppliedChange(call.args[1])[2]
CalledVolume == AppliedChange(call.args[1])[3]

\* ------------------------------------------------------------------ claims

\* C1: after any sequence of init_book and update_volume calls, every
\* internal node i with 1 <= i < price_points holds the sum of its two
\* children: tree[i] = tree[2i] + tree[2i+1].
C1_TreeSums ==
    \A p \in product_ids :
        LET book == order_books[p] IN
        \A i \in 1 .. (book.price_points - 1) :
            book.volume_seg_tree[i] =
                book.volume_seg_tree[2 * i] + book.volume_seg_tree[2 * i + 1]

\* C1 witness: an update_volume has just changed a tree that a snapshot with
\* volume had built before (node 0 grows only in init_book).
C1_Witness ==
    /\ UpdateVolumeCalled
    /\ order_books[CalledProduct].volume_seg_tree[0] > 0
    /\ order_books[CalledProduct].volume_seg_tree[1] > 0
    /\ order_books[CalledProduct].volume_seg_tree[1]
           # before[CalledProduct].volume_seg_tree[1]

C3_TotalIsFullRange ==
    \A p \in product_ids :
        LET book == order_books[p] IN
        get_total_volume(book) = get_volume_in_range(book, Cents(1), book.price_cap)

\* C4 (as claimed): built() is true exactly when the root tree[1] is above 0.
C4_BuiltIffRootPositive ==
    \A p \in product_ids :
        LET book == order_books[p] IN
        built(book) <=> (book.volume_seg_tree[1] > 0)

\* What a read of the sampler may return if it reads one state of the
\* books: a state that was there, between two book operations of the feed,
\* at some moment since the read began, or the state the operation now under
\* way will leave.
Acceptable ==
    Seen(Committed) \cup
        (IF FeedWriting THEN Seen(update_order_book(before, feed.frame)) ELSE {})

\* get_total_volume, called by built(), has left its loop and is to return.
BuiltReturning == SamplerInBuilt /\ ~(sampler.lrs[1] < sampler.lrs[2])

\* C5 (as claimed): every read of a book the sampler makes while the feed
\* writes it, by built() (get_total_volume, get_volume_in_range) or by
\* query(), returns what one state of the book gives, the state before a
\* write or the state after it, never a mix of the two.
C5_ReadsSeeOneState ==
    /\ BuiltReturning => sampler.lrs[3] \in Acceptable
    /\ sampler.pc = "query_return" => sampler.row \in Acceptable

\* C6: when update_volume and query run on the same book at the same time,
\* the row query returns is the row of the book before the update or the row
\* of the book after it.
C6_QueryRowFromOneState ==
    sampler.pc = "query_return" => sampler.row \in Acceptable

\* C6 witness: query is returning a row with volume in it while the feed
\* thread is inside update_volume, waiting for the lock, with a change that
\* gives another row.
C6_Witness ==
    /\ sampler.pc = "query_return"
    /\ feed.pc = "update_volume"
    /\ sampler.row.total > 0
    /\ sampler.row.price > 0
    /\ query(update_order_book(order_books, feed.frame)[ProductList[sampler.i]],
             SamplerPercentRanges) # sampler.row

\* C7 (as claimed): every row the sampler hands to __write_to_db was computed
\* from a state of the book in which it was built: its total is not 0.
C7_RowsOnlyOfBuiltBooks ==
    sampler.pc = "write" => sampler.row.total # 0

\* update_volume would store this change in the book.
Storable(book, change) ==
    /\ update_volume_raises(book, change[2], change[3]) = "none"
    /\ valid_order(book, change[2], change[3])

\* The size of the last change of `changes` that update_volume would store
\* at tree index `index`, or `default` when there is none.
RECURSIVE LastSizeAt(_, _, _, _)
LastSizeAt(book, changes, index, default) ==
    IF changes = <<>> THEN default
    ELSE LET c == Head(changes)
             here == Storable(book, c) /\ UpdateIndex(book, c[2]) = index
         IN  LastSizeAt(book, Tail(changes), index, IF here THEN c[3] ELSE default)

\* C8 (as claimed): after update_order_book on an l2update frame of a
\* tracked product, the level of every valid change of the frame holds the
\* size of the last change of the frame for that level.
C8_AllChangesApplied ==
    UpdateVolumeCalled =>
        LET book    == order_books[CalledProduct]
            changes == call.args[1].changes
        IN  \A k \in DOMAIN changes :
                Storable(book, changes[k]) =>
                    LET index == UpdateIndex(book, changes[k][2])
                    IN  book.volume_seg_tree[index] = LastSizeAt(book, changes, index, 0)

\* C9 (as claimed): update_volume(p, 0) with a valid price p sets the leaf
\* of p to 0, lowers the root by the value that leaf held, and leaves every
\* other leaf as it was.
C9_RemovalClearsLeafOfPrice ==
    (UpdateVolumeCalled /\ CalledVolume = 0
        /\ valid_price(order_books[CalledProduct], CalledPrice)) =>
        LET book == order_books[CalledProduct]
            old  == before[CalledProduct]
            c    == CalledPrice \div PipsPerCent
        IN  /\ Leaf(book, c) = 0
            /\ book.volume_seg_tree[1] = old.volume_seg_tree[1] - Leaf(old, c)
            /\ \A d \in LevelCents(book) \ {c} : Leaf(book, d) = Leaf(old, d)

\* C10: update_volume is an idempotent absolute assignment: once
\* update_volume(p, v) has returned, a second update_volume(p, v) leaves the
\* whole tree as the first call left it.
C10_UpdateVolumeIdempotent ==
    UpdateVolumeCalled =>
        LET book == order_books[CalledProduct]
        IN  update_volume(book, CalledPrice, CalledVolume).volume_seg_tree
                = book.volume_seg_tree

\* C10 witness: a valid update_volume(p, v), v > 0, has just changed the tree.
C10_Witness ==
    /\ UpdateVolumeCalled
    /\ valid_order(order_books[CalledProduct], CalledPrice, CalledVolume)
    /\ CalledVolume > 0
    /\ order_books[CalledProduct].volume_seg_tree
           # before[CalledProduct].volume_seg_tree

\* A value the claims count as no number: an unparsable string, a null, NaN.
NotNumeric(x) == x \in NonNumbers

\* A price the claims count as invalid: no number, not above 0, or above
\* the price cap.
InvalidPrice(book, price) ==
    NotNumeric(price) \/ price <= 0 \/ price > book.price_cap

\* C11 (as claimed): update_volume with a price that is not above 0, above
\* the cap or no number, or with a size that is no number or negative, is
\* rejected: the book (tree and market price) is as it was and no exception
\* reaches the caller.
C11_InvalidOrderRejected ==
    (UpdateVolumeCalled
        /\ \/ InvalidPrice(before[CalledProduct], CalledPrice)
           \/ NotNumeric(CalledVolume)
           \/ CalledVolume < 0) =>
        /\ order_books = before
        /\ call.raised = "none"

\* C12 (as claimed): get_volume_in_range(lo, hi) returns 0 and changes no
\* state when hi < lo or when either bound is invalid.
C12_BadRangeReturnsZero ==
    (call.op = "get_volume_in_range"
        /\ LET book == before[call.args[1]]
               lo   == call.args[2]
               hi   == call.args[3]
           IN  InvalidPrice(book, lo) \/ InvalidPrice(book, hi) \/ hi < lo) =>
        /\ call.raised = "none"
        /\ call.result = 0
        /\ order_books = before

\* The last call was update_order_book on a snapshot frame of a tracked
\* product, and init_book returned.
InitBookCalled ==
    /\ call.op = "update_order_book"
    /\ IsSnapshot(call.args[1].type)
    /\ call.args[1].product_id \in product_ids
    /\ call.raised = "none"

\* The size of the last entry of `entries` for `price` that validates, or
\* `default` when there is none.
RECURSIVE LastEntrySize(_, _, _, _)
LastEntrySize(book, entries, price, default) ==
    IF entries = <<>> THEN default
    ELSE LET e == Head(entries)
             here == valid_order(book, e[1], e[2]) /\ e[1] = price
         IN  LastEntrySize(book, Tail(entries), price, IF here THEN e[2] ELSE default)

\* C13 (as claimed): after init_book(bids, asks) each leaf holds the size of
\* the last valid entry for its price, bids first and then asks, and 0 when
\* no valid entry names its price.
C13_SnapshotSetsLeavesOfItsPrices ==
    InitBookCalled =>
        LET frame == call.args[1]
            book  == order_books[frame.product_id]
        IN  \A c \in LevelCents(book) :
                Leaf(book, c) = LastEntrySize(book, frame.bids \o frame.asks, Cents(c), 0)

\* C14 (as claimed): in a row of query, for each band whose two ends are
\* valid prices, buy_vol + sell_vol is the range sum from the low end to the
\* high end of the band, the level at the market price counted once.
C14_BandCountsMarketOnce ==
    call.op = "query" =>
        LET book  == order_books[call.args[1]]
            row   == call.result
            price == row.price
        IN  \A k \in DOMAIN PercentRanges :
                LET low  == BandLow(price, PercentRanges[k])
                    high == BandHigh(price, PercentRanges[k])
                IN  (valid_price(book, low) /\ valid_price(book, high)) =>
                        row.buy_vols[k] + row.sell_vols[k]
                            = get_volume_in_range(book, low, high)

\* The cap-200 book is in the state of scenario S4: levels 99.50 -> 2.0,
\* 100.00 -> 3.0 and 100.50 -> 0.5 and no other, market price 100.00.
S4Reached ==
    LET book == order_books["BTC-USD"]
    IN  /\ book.market_price = Cents(10000)
        /\ Leaf(book, 9950) = 4
        /\ Leaf(book, 10000) = 6
        /\ Leaf(book, 10050) = 1
        /\ book.volume_seg_tree[1] = 11

\* C15: scenario S4: on the cap-200 book after init_book(bids 100.00 -> 1.5,
\* 99.50 -> 2.0; asks 100.50 -> 0.5), update_volume(100.00, 3.0) and
\* update_market_price(100.00), query([0.5, 1.0]) reports for the 0.5% band
\* buy volume 5.0 and sell volume 0.5 (10 halves and 1 half).
C15_ScenarioS4 ==
    (call.op = "query" /\ S4Reached) =>
        /\ call.result.buy_vols[1] = 10
        /\ call.result.sell_vols[1] = 1

\* C18: a feed frame changes at most the book of its own product_id: every
\* other product's book (tree and market price) is as it was before the
\* frame, and a frame of an untracked product changes no book at all.
C18_FrameChangesOwnBookOnly ==
    call.op = "update_order_book" =>
        \A p \in product_ids :
            p # call.args[1].product_id => order_books[p] = before[p]

\* A frame of the second product changed that product's book while the first
\* product's book held a level and a market price.
C18_Witness ==
    /\ call.op = "update_order_book"
    /\ call.args[1].product_id = "ETH-USD"
    /\ order_books["ETH-USD"] # before["ETH-USD"]
    /\ order_books["BTC-USD"].volume_seg_tree[1] > 0
    /\ order_books["BTC-USD"].market_price = Cents(1)
    /\ order_books["ETH-USD"].market_price = 0

\* A thread is in, or has just left, a call of __write_to_db whose write
\* failed with a locked store or a primary-key violation.
LockedOrUnique(t) == Writer(t).err \in {"locked", "unique"}

\* C16: when a sink write fails with a storage-locked error or a primary-key
\* uniqueness violation, the row is dropped, no operator notification is
\* issued (and the rate limit is not touched), no exception escapes
\* __write_to_db, and the call returns None to its caller, which goes on.
C16_LockedAndUniqueDropped ==
    /\ [](\A t \in SinkWriters :
            LockedOrUnique(t) => Writer(t).pc \in {"except", "idle"})
    /\ [][\A t \in SinkWriters :
            (LockedOrUnique(t) /\ Writer(t).pc = "except" /\ Writer(t)' # Writer(t)) =>
                /\ Writer(t)'.pc = "idle"
                /\ Writer(t)'.result = "None"
                /\ handler' = handler]_vars

\* With the channel switched on and the rate limit open, the sampler's write
\* failed on a primary-key violation and the call has returned.
C16_Witness ==
    /\ handler.post_to_slack
    /\ RateLimitOpen(handler)
    /\ sampler.pc = "idle"
    /\ sampler.err = "unique"
    /\ sampler.result = "None"
    /\ feed.err = "locked"
    /\ feed.pc = "idle"

Malformed(msg) == msg \in MalformedJson \cup MissingFields

\* C19: a message that is malformed JSON, or lacks the expected fields, is
\* dropped: it changes no book and adds no row to a sink; the feed worker does
\* not abort; and a well-formed book frame, before or after it, is applied.
C19_MalformedFrameDropped ==
    /\ [](feed.pc # "aborted")
    /\ []((call.op = "on_message" /\ call.args[1] \in WellFormed
                /\ Branch(call.args[1]) = "update_order_book") =>
              /\ call.raised = "none"
              /\ order_books = update_order_book(before, call.args[1].frame))
    /\ [][(call'.op = "on_message" /\ Malformed(call'.args[1])) =>
              /\ order_books' = order_books
              /\ handler'.rows = handler.rows]_vars

\* After a message was dropped, and on the connection it arrived on or a later
\* one, a well-formed l2update has changed its book.
C19_Witness ==
    /\ feed.dropped = 1
    /\ feed.pc = "running"
    /\ call.op = "on_message"
    /\ call.args[1] \in WellFormed
    /\ IsL2Update(call.args[1].frame.type)
    /\ order_books # before

\* C20: close() sets the stop flag and returns only after the sampler thread
\* has exited: once close() has returned, is_running() is false, no further
\* book row is appended and the main loop opens no new connection; and a
\* call of close() eventually returns.
C20_CloseStopsSampler ==
    /\ [](handler.close_returned => (~is_running(handler) /\ sampler.pc = "exited"))
    /\ [][handler.close_returned =>
              /\ handler'.rows.order_books = handler.rows.order_books
              /\ handler'.connections = handler.connections]_vars
    /\ (feed.pc = "join" ~> feed.pc # "join")

\* close() has returned to __exit__ after the main loop opened a connection
\* and the sampler appended book rows.
C20_Witness ==
    /\ handler.close_returned
    /\ feed.pc = "done"
    /\ handler.connections > 0
    /\ Cardinality(handler.rows.order_books) > 1

\* C21: the sampler polls the stop flag between products: once the stop flag
\* is set, the sampler begins sampling no further product of the pass in
\* progress.
C21_StopPolledBetweenProducts ==
    [][handler.closed =>
           ~(/\ sampler.pc = "pass"
             /\ sampler.i <= Len(SampledProducts)
             /\ sampler'.i = sampler.i + 1)]_vars

\* C22: every ticker frame that carries a time field produces exactly one row
\* handed to the ticker sink, and in that row the product_id column and the
\* price column hold the frame's product_id and price, the two clock columns
\* holding the local clock.
C22_TickerRowHoldsFrame ==
    call.op = "insert_ticker" =>
        /\ Len(call.result) = 1
        /\ Column(call.result[1], "system_time") = handler.clock
        /\ Column(call.result[1], "product_id") = Field(call.args[1], "product_id")
        /\ Column(call.result[1], "price") = Field(call.args[1], "price")

\* C23: book lifecycle: a book is unbuilt from its construction until its
\* first snapshot ingest completes and built from that ingest onward.  Step
\* by step: a new book is unbuilt; a snapshot ingested by init_book leaves its
\* book built; and no other feed message changes whether a book is built.
C23_BuiltBySnapshotOnly ==
    /\ \A p \in product_ids : order_books[p] = NewOrderBooks[p] => ~built(order_books[p])
    /\ call.op = "update_order_book" =>
          \A p \in product_ids :
              IF IsSnapshot(call.args[1].type)
              THEN (p = call.args[1].product_id /\ call.raised = "none") =>
                       built(order_books[p])
              ELSE built(order_books[p]) = built(before[p])

\* C24: the sampler never holds a book's lock while a sink write is in
\* progress: query has released the lock when the row is passed to
\* __write_to_db, so the feed can take the lock of that book meanwhile.
C24_NoLockDuringSinkWrite ==
    sampler.pc = "write" => \A p \in product_ids : lock[p] # "sampler"

\* The row of a book is at the sink while the feed thread holds that book's
\* lock, in the middle of a write.
C24_Witness ==
    /\ sampler.pc = "write"
    /\ lock[ProductList[sampler.i]] = "feed"
    /\ FeedWriting

\* C25: update_market_price never modifies the tree; with a valid price it
\* sets the market price to that price, and with an invalid price (<= 0,
\* above price_cap, no number) it leaves the market price unchanged as well.
C25_MarketPriceSetOrKept ==
    (/\ call.op = "update_order_book"
     /\ IsMatch(call.args[1].type)
     /\ call.args[1].product_id \in product_ids) =>
        LET p     == call.args[1].product_id
            price == call.args[1].price
        IN  /\ order_books[p].volume_seg_tree = before[p].volume_seg_tree
            /\ order_books[p].market_price =
                   IF InvalidPrice(before[p], price) THEN before[p].market_price
                   ELSE price

\* C26: every price that passes validation is stored at a leaf that belongs
\* to it.  For a price with 0 < price <= price_cap, on a cent or not,
\* update_volume writes at a tree index in [price_points, 2*price_points),
\* so every internal node stays the sum of its children; and after
\* init_book a leaf holds volume only if the snapshot has a valid entry
\* whose price truncates to the cent of that leaf.
C26_ValidPriceStoredAtOwnLeaf ==
    (/\ call.op = "update_order_book"
     /\ call.raised = "none"
     /\ call.args[1].product_id \in product_ids) =>
        LET frame == call.args[1]
            book  == order_books[frame.product_id]
            old   == before[frame.product_id]
        IN  /\ IsL2Update(frame.type) =>
                  LET change == AppliedChange(frame)
                  IN  valid_order(old, change[2], change[3]) =>
                          /\ UpdateIndex(old, change[2]) >= old.price_points
                          /\ UpdateIndex(old, change[2]) < 2 * old.price_points
                          /\ \A i \in 1 .. book.price_points - 1 :
                                 book.volume_seg_tree[i] =
                                     book.volume_seg_tree[2 * i]
                                         + book.volume_seg_tree[2 * i + 1]
            /\ IsSnapshot(frame.type) =>
                  \A c \in 1 .. book.price_points :
                      Leaf(book, c) # 0 =>
                          \E k \in 1 .. Len(frame.bids \o frame.asks) :
                              LET order == (frame.bids \o frame.asks)[k]
                              IN  /\ valid_order(old, order[1], order[2])
                                  /\ order[1] \div PipsPerCent = c

\* C27: the band volumes in a row of query are monotone in the band width:
\* for two bands p <= q of percent_ranges, buy_vol[p] <= buy_vol[q] and
\* sell_vol[p] <= sell_vol[q], also when the high end of the wider band
\* lies above price_cap.
C27_BandVolumesMonotone ==
    call.op = "query" =>
        LET row == call.result
        IN  \A j, k \in DOMAIN PercentRanges :
                PercentRanges[j] <= PercentRanges[k] =>
                    /\ row.buy_vols[j] <= row.buy_vols[k]
                    /\ row.sell_vols[j] <= row.sell_vols[k]

\* The feed thread has called a book operation that is waiting for the lock.
FeedWaiting == feed.pc \in {"update_volume", "update_market_price", "init_book"}

C29_SamplerOutlivesSinkFailures ==
    sampler.pc = "exited" => handler.closed

\* seq is the first Len(seq) elements of other.
IsPrefix(seq, other) ==
    /\ Len(seq) <= Len(other)
    /\ \A k \in 1 .. Len(seq) : seq[k] = other[k]

\* C30: every record log() accepted before close() was called is written to
\* the log file exactly once and in the order logged, no later than the
\* return of close(): the file never holds anything but a prefix of the
\* accepted records, and when close() has returned it holds them all, none
\* left in the buffer or in the rollback slot.
C30_AcceptedRecordsWrittenByClose ==
    /\ IsPrefix(handler.logfile, handler.accepted)
    /\ handler.close_returned =>
           /\ handler.logfile = handler.accepted
           /\ handler.buffer = <<>>
           /\ handler.prev_data = NoData

====
